---- MODULE Spec2Model ----
(***************************************************************************)
(* Model of pyannote/metrics/segmentation.py: the boundary matcher behind  *)
(* SegmentationPrecision / SegmentationRecall and the partition /          *)
(* co-occurrence pipeline behind SegmentationCoverage / SegmentationPurity.*)
(*                                                                         *)
(* Timestamps are integers (multiples of an arbitrary tick), so interval   *)
(* arithmetic is exact.  A Segment is a pair <<start, end>> with           *)
(* start < end, a Timeline is a set of segments iterated in (start, end)   *)
(* order, an Annotation is a set of <<segment, label>> pairs.              *)
(* The module is Python 2 code (from __future__ import unicode_literals,   *)
(* no "division" import): `k / M` on integers is floor division.           *)
(***************************************************************************)
EXTENDS Integers, Sequences, FiniteSets, TLC

\* ------------------------------------------------------------------ bounds
MaxTime == 4

MaxSegs == 4

\* np.inf: compares greater than every finite distance of the model
Inf == 1000000

\* ------------------------------------------------------------ data model
Times == 0..MaxTime

Segments == {s \in Times \X Times : s[1] < s[2]}

\* the inputs are segmentations: segments of one structure never overlap
\* (they may touch, and there may be holes between them)
NonOverlapping(T) == \A a, b \in T : a = b \/ a[2] <= b[1] \/ b[2] <= a[1]

Timelines == {T \in SUBSET Segments : Cardinality(T) <= MaxSegs /\ NonOverlapping(T)}

\* the timelines of the two doctests (tick = 1 s)
DocReference == {<<0, 1>>, <<1, 2>>, <<2, 4>>}

DocHypothesis4 == {<<0, 1>>, <<1, 2>>, <<2, 3>>, <<3, 4>>}

DocHypothesis1 == {<<0, 4>>}

\* interior boundaries lie in 1..MaxTime-1, so the largest tolerance masks nothing
Tolerances == 0..(MaxTime - 2)

Min(a, b) == IF a <= b THEN a ELSE b

Abs(x) == IF x < 0 THEN 0 - x ELSE x

\* Segment ordering: by start, then by end
SegLess(a, b) == a[1] < b[1] \/ (a[1] = b[1] /\ a[2] < b[2])

RECURSIVE SortedSegs(_)
\* iteration order of a Timeline
SortedSegs(T) ==
    IF T = {} THEN <<>>
    ELSE LET m == CHOOSE s \in T : \A t \in T : s = t \/ SegLess(s, t)
         IN  <<m>> \o SortedSegs(T \ {m})

\* [segment.end for segment in timeline][:-1]
BoundariesOf(T) ==
    LET ss == SortedSegs(T)
    IN  [i \in 1..(IF Len(ss) = 0 THEN 0 ELSE Len(ss) - 1) |-> ss[i][2]]

\* ------------------------------------------------- boundary matcher helpers
Rows(n) == 0..(n - 1)

\* delta[r, h] = abs(refBoundary - hypBoundary)
DeltaMatrix(rb, hb) ==
    [c \in Rows(Len(rb)) \X Rows(Len(hb)) |-> Abs(rb[c[1] + 1] - hb[c[2] + 1])]

\* mutant of MaskFar: a pair exactly `tolerance` apart is masked too
MaskFarOrEqual(d, tol) == [c \in DOMAIN d |-> IF d[c] >= tol THEN Inf ELSE d[c]]

\* mutant of MaskFar: nothing is masked
MaskNothing(d, tol) == d

\* mutant of MaskFar: the comparison is reversed
MaskNear(d, tol) == [c \in DOMAIN d |-> IF d[c] < tol THEN Inf ELSE d[c]]

\* delta[np.where(delta > self.tolerance)] = np.inf
MaskFar(d, tol) == [c \in DOMAIN d |-> IF d[c] > tol THEN Inf ELSE d[c]]

\* np.amin(delta)
Amin(d) == CHOOSE v \in {d[c] : c \in DOMAIN d} : \A c \in DOMAIN d : v <= d[c]

\* np.argmin(delta): first index of the minimum in the flattened (row-major) matrix
Argmin(d, m) ==
    LET flat(k) == d[<<k \div m, k % m>>]
        n == Cardinality(DOMAIN d)
    IN  CHOOSE k \in 0..(n - 1) :
            /\ flat(k) = Amin(d)
            /\ \A k2 \in 0..(k - 1) : flat(k2) # Amin(d)

\* k = np.argmin(delta) ; i = k / M ; j = k % M
MatchedCell(d, m) == LET k == Argmin(d, m) IN <<k \div m, k % m>>

\* mutant of MaskRowCol: only the matched cell is masked
MaskCellOnly(d, i, j) == [c \in DOMAIN d |-> IF c = <<i, j>> THEN Inf ELSE d[c]]

\* mutant of MaskRowCol: only the matched row is masked
MaskRowOnly(d, i, j) == [c \in DOMAIN d |-> IF c[1] = i THEN Inf ELSE d[c]]

\* delta[i, :] = np.inf ; delta[:, j] = np.inf
MaskRowCol(d, i, j) ==
    [c \in DOMAIN d |-> IF c[1] = i \/ c[2] = j THEN Inf ELSE d[c]]

FiniteCells(d) == {c \in DOMAIN d : d[c] < Inf}

RECURSIVE GreedyCount(_, _)
\* the while loop as a function of the masked matrix: the final nMatches
GreedyCount(d, m) ==
    IF Amin(d) < Inf
    THEN LET c == MatchedCell(d, m)
         IN  1 + GreedyCount(MaskRowCol(d, c[1], c[2]), m)
    ELSE 0

\* nMatches of _get_details for two non-empty boundary lists and a tolerance
MatchCount(rb, hb, tol) == GreedyCount(MaskFar(DeltaMatrix(rb, hb), tol), Len(hb))

\* ------------------------------------------- coverage / purity data model
Labels == {"A", "B"}

\* the reference and hypothesis of coverage / purity are labelled segmentations
\* on a grid one tick shorter, with one segment fewer, than the matcher's inputs
GapTimelines ==
    {T \in Timelines : Cardinality(T) < MaxSegs /\ \A s \in T : s[2] < MaxTime}

Annotations ==
    UNION {{{<<s, f[s]>> : s \in T} : f \in [T -> Labels]} : T \in GapTimelines}

\* a gap of d ticks is closed by every tolerance above d
GapTolerances == 0..(MaxTime - 2)

\* the Gap Filler example, tick = 0.1 s: [0,1] and [1.2,2] under one label
DocGapReference == {<<<<0, 10>>, "A">>, <<<<12, 20>>, "A">>}

\* tolerance=0.500, in ticks of 0.1 s
DocGapTolerance == 5

Max(a, b) == IF a >= b THEN a ELSE b

Dur(s) == s[2] - s[1]

\* Annotation.labels()
LabelsOf(A) == {a[2] : a \in A}

\* Annotation.label_timeline(label)
LabelTimeline(A, l) == {a[1] : a \in {x \in A : x[2] = l}}

\* Annotation.get_timeline()
GetTimeline(A) == {a[1] : a \in A}

\* the ticks a timeline covers
CellsOf(T) == UNION {s[1]..(s[2] - 1) : s \in T}

\* Timeline.coverage(): the merged envelope (touching segments are merged)
CoverageOf(T) ==
    LET cells == CellsOf(T)
    IN  {c \in {s[1] : s \in T} \X {s[2] : s \in T} :
            /\ c[1] < c[2]
            /\ (c[1] - 1) \notin cells
            /\ c[2] \notin cells
            /\ (c[1]..(c[2] - 1)) \subseteq cells}

\* Timeline.gaps(): the holes of the coverage inside the timeline's extent
GapsOf(T) ==
    LET cells == CellsOf(T)
    IN  {g \in {s[2] : s \in T} \X {s[1] : s \in T} :
            /\ g[1] < g[2]
            /\ (g[1]..(g[2] - 1)) \cap cells = {}}

\* mutant of GapIsShort: a gap exactly `tolerance` long is closed too
GapIsShortOrEqual(g, tol) == Dur(g) <= tol

\* gap.duration < self.tolerance
GapIsShort(g, tol) == Dur(g) < tol

\* one label of _preprocess: the label's timeline, its short gaps added, merged
LabelFilled(A, l, tol) ==
    LET lt == LabelTimeline(A, l)
    IN  CoverageOf(lt \cup {g \in GapsOf(lt) : GapIsShort(g, tol)})

\* `filled` of _preprocess
Filled(A, tol) == UNION {LabelFilled(A, l, tol) : l \in LabelsOf(A)}

\* boundaries (as set of timestamps)
BoundarySet(T) == {s[1] : s \in T} \cup {s[2] : s \in T}

\* pairwise(sorted(boundaries))
Pairwise(B) == {q \in B \X B : q[1] < q[2] /\ ~(\E c \in B : q[1] < c /\ c < q[2])}

\* _partition: consecutive boundaries, cropped to the coverage (intersection
\* mode), one track per atomic interval
Partition(T, cov) ==
    {<<Max(x[1][1], x[2][1]), Min(x[1][2], x[2][2])>> :
        x \in {y \in Pairwise(BoundarySet(T)) \X cov :
                  Max(y[1][1], y[2][1]) < Min(y[1][2], y[2][2])}}

\* mutant of Preprocess: the hypothesis is gap-filled and merged like the reference
PreprocessBoth(ref, hyp, tol) ==
    LET f == Filled(ref, tol)
        cov == CoverageOf(f)
    IN  [filled |-> f, coverage |-> cov,
         reference |-> Partition(f, cov),
         hypothesis |-> Partition(Filled(hyp, tol), cov)]

\* _preprocess
Preprocess(ref, hyp, tol) ==
    LET f == Filled(ref, tol)
        cov == CoverageOf(f)
    IN  [filled |-> f, coverage |-> cov,
         reference |-> Partition(f, cov),
         hypothesis |-> Partition(GetTimeline(hyp), cov)]

\* one cell of the co-occurrence matrix
Overlap(a, b) ==
    LET lo == Max(a[1], b[1])
        hi == Min(a[2], b[2])
    IN  IF lo < hi THEN hi - lo ELSE 0

RECURSIVE SumOverlap(_, _)
\* sum of one row of K
SumOverlap(r, cols) ==
    IF cols = {} THEN 0
    ELSE LET c == CHOOSE x \in cols : TRUE
         IN  Overlap(r, c) + SumOverlap(r, cols \ {c})

\* maximum of one row of K
RowMax(r, cols) ==
    IF cols = {} THEN 0
    ELSE CHOOSE v \in {Overlap(r, c) : c \in cols} : \A c \in cols : Overlap(r, c) <= v

RECURSIVE SumRows(_, _, _)
\* sum over the rows of the row sums (which = "sum") or of the row maxima ("max")
SumRows(rows, cols, which) ==
    IF rows = {} THEN 0
    ELSE LET r == CHOOSE x \in rows : TRUE
         IN  (IF which = "sum" THEN SumOverlap(r, cols) ELSE RowMax(r, cols))
                + SumRows(rows \ {r}, cols, which)

\* _process: K = reference * hypothesis, np.sum(K), np.sum(np.max(K, axis=1))
Process(rows, cols) ==
    [total |-> SumRows(rows, cols, "sum"), inter |-> SumRows(rows, cols, "max")]

\* SegmentationCoverage._get_details: return self._process(reference, hypothesis)
CoverageProcess(p) == Process(p.reference, p.hypothesis)

\* mutant of PurityProcess: the two partitions are not swapped
PurityProcessUnswapped(p) == Process(p.reference, p.hypothesis)

\* SegmentationPurity._get_details: return self._process(hypothesis, reference)
PurityProcess(p) == Process(p.hypothesis, p.reference)

\* SegmentationCoverage._get_details as a function of its arguments
CoverageDetails(ref, hyp, tol) == CoverageProcess(Preprocess(ref, hyp, tol))

\* SegmentationPurity._get_details as a function of its arguments
PurityDetails(ref, hyp, tol) == PurityProcess(Preprocess(ref, hyp, tol))

\* ------------------------------------------------------------------ state
\* metric: the metric class; tolerance: self.tolerance; reference, hypothesis: the
\* arguments of the call; pc: position in _get_details / _get_rate; error: the
\* exception raised; N .. nMatches: locals of SegmentationPrecision._get_details;
\* matched: the (i, j) pairs the loop extracted so far (history); filled ..
\* hypPartition: locals of SegmentationCoverage._preprocess; detail: the detail
\* record; rate: the value of _get_rate
VARIABLES metric, tolerance, reference, hypothesis, pc, error,
          N, M, refBoundaries, hypBoundaries, delta, h, nMatches, matched,
          filled, coverage, refPartition, hypPartition,
          detail, rate

vars == <<metric, tolerance, reference, hypothesis, pc, error,
          N, M, refBoundaries, hypBoundaries, delta, h, nMatches, matched,
          filled, coverage, refPartition, hypPartition,
          detail, rate>>

\* locals of the boundary matcher
matcherVars == <<N, M, refBoundaries, hypBoundaries, delta, h, nMatches, matched>>

\* locals of the partition pipeline
partitionVars == <<filled, coverage, refPartition, hypPartition>>

\* SegmentationRecall._get_details passes (hypothesis, reference) to the parent
InnerReference == IF metric = "recall" THEN hypothesis ELSE reference

InnerHypothesis == IF metric = "recall" THEN reference ELSE hypothesis

InitPR ==
    /\ metric \in {"precision", "recall"}
    /\ tolerance \in Tolerances
    /\ reference \in Timelines
    /\ hypothesis \in Timelines
    /\ pc = "call"
    /\ error = "none"
    /\ N = 0
    /\ M = 0
    /\ refBoundaries = <<>>
    /\ hypBoundaries = <<>>
    /\ delta = <<>>
    /\ h = Inf
    /\ nMatches = 0
    /\ matched = <<>>
    /\ filled = {}
    /\ coverage = {}
    /\ refPartition = {}
    /\ hypPartition = {}
    /\ detail = [matches |-> 0, boundaries |-> 0]
    /\ rate = <<>>

\* _get_details, corner case: M == 0 or N == 0
CornerCase ==
    /\ pc = "call"
    /\ LET n == Cardinality(InnerReference) - 1
           m == Cardinality(InnerHypothesis) - 1
       IN  /\ (m = 0 \/ n = 0)
           /\ N' = n
           /\ M' = m
           /\ detail' = [matches |-> 0, boundaries |-> m]
    /\ pc' = "details"
    /\ UNCHANGED <<metric, tolerance, reference, hypothesis, error, refBoundaries,
                   hypBoundaries, delta, h, nMatches, matched, rate, partitionVars>>

\* _get_details with an empty timeline on one side and no corner case:
\* np.zeros((N, M)) with a negative dimension raises ValueError
NegativeDimension ==
    /\ pc = "call"
    /\ LET n == Cardinality(InnerReference) - 1
           m == Cardinality(InnerHypothesis) - 1
       IN  /\ ~(m = 0 \/ n = 0)
           /\ (n < 0 \/ m < 0)
           /\ N' = n
           /\ M' = m
           /\ detail' = [matches |-> 0, boundaries |-> m]
    /\ refBoundaries' = BoundariesOf(InnerReference)
    /\ hypBoundaries' = BoundariesOf(InnerHypothesis)
    /\ pc' = "error"
    /\ error' = "ValueError"
    /\ UNCHANGED <<metric, tolerance, reference, hypothesis, delta, h, nMatches,
                   matched, rate, partitionVars>>

\* _get_details up to the first np.amin: distance matrix, masking
BuildDelta ==
    /\ pc = "call"
    /\ LET n == Cardinality(InnerReference) - 1
           m == Cardinality(InnerHypothesis) - 1
           rb == BoundariesOf(InnerReference)
           hb == BoundariesOf(InnerHypothesis)
           d == MaskFar(DeltaMatrix(rb, hb), tolerance)
       IN  /\ n > 0
           /\ m > 0
           /\ N' = n
           /\ M' = m
           /\ detail' = [matches |-> 0, boundaries |-> m]
           /\ refBoundaries' = rb
           /\ hypBoundaries' = hb
           /\ delta' = d
           /\ h' = Amin(d)
    /\ pc' = "loop"
    /\ UNCHANGED <<metric, tolerance, reference, hypothesis, error, nMatches,
                   matched, rate, partitionVars>>

\* one iteration of `while h < np.inf`
MatchStep ==
    /\ pc = "loop"
    /\ h < Inf
    /\ LET c == MatchedCell(delta, M)
           i == c[1]
           j == c[2]
           d == MaskRowCol(delta, i, j)
       IN  /\ nMatches' = nMatches + 1
           /\ matched' = Append(matched, <<i, j>>)
           /\ delta' = d
           /\ h' = Amin(d)
    /\ UNCHANGED <<metric, tolerance, reference, hypothesis, pc, error, N, M,
                   refBoundaries, hypBoundaries, detail, rate, partitionVars>>

\* loop exit: detail[PR_MATCHES] = nMatches ; return detail
LoopExit ==
    /\ pc = "loop"
    /\ ~(h < Inf)
    /\ detail' = [detail EXCEPT !.matches = nMatches]
    /\ pc' = "details"
    /\ UNCHANGED <<metric, tolerance, reference, hypothesis, error, N, M,
                   refBoundaries, hypBoundaries, delta, h, nMatches, matched, rate, partitionVars>>

\* SegmentationPrecision._get_rate; a rate is the fraction <<numerator, denominator>>
PRRate(d) ==
    IF d.boundaries = 0
    THEN (IF d.matches = 0 THEN <<1, 1>> ELSE <<>>)
    ELSE <<d.matches, d.boundaries>>

GetRatePR ==
    /\ pc = "details"
    /\ rate' = PRRate(detail)
    /\ IF PRRate(detail) = <<>>
       THEN pc' = "error" /\ error' = "ValueError"
       ELSE pc' = "done" /\ error' = error
    /\ UNCHANGED <<metric, tolerance, reference, hypothesis, N, M, refBoundaries,
                   hypBoundaries, delta, h, nMatches, matched, detail, partitionVars>>

NextPR == CornerCase \/ NegativeDimension \/ BuildDelta \/ MatchStep \/ LoopExit
             \/ GetRatePR

SpecPR == InitPR /\ [][NextPR]_vars

\* ------------------------------------------------- precision / recall claims
\* a contiguous segmentation: non-empty, each segment starts where the previous ends
Contiguous(T) ==
    /\ T # {}
    /\ LET ss == SortedSegs(T)
       IN  \A i \in 1..(Len(ss) - 1) : ss[i][2] = ss[i + 1][1]

\* timestamps where one segment ends and another starts
InteriorBoundaries(T) == {t \in Times : \E a, b \in T : a[2] = t /\ b[1] = t}

CommonBoundaries == InteriorBoundaries(reference) \cap InteriorBoundaries(hypothesis)

\* number of interior boundaries of a structure with |T| intervals
InteriorCount(T) == IF T = {} THEN 0 ELSE Cardinality(T) - 1

\* the denominator the metric divides by: hypothesis boundaries for precision,
\* reference boundaries for recall
Denominator ==
    IF metric = "precision" THEN Cardinality(InteriorBoundaries(hypothesis))
    ELSE Cardinality(InteriorBoundaries(reference))

\* C1: with tolerance 0 and two contiguous segmentations, the match count is the
\* number of timestamps that are interior boundaries of both; precision is that
\* count over the hypothesis boundary count and recall is that count over the
\* reference boundary count (rate 1 when that boundary count is 0); the doctest
\* pairs give 2/3 and 1, and 1 and 0.
C1_ExactBoundaryMatches ==
    (tolerance = 0 /\ Contiguous(reference) /\ Contiguous(hypothesis)) =>
        /\ pc # "error"
        /\ pc \in {"details", "done"} => detail.matches = Cardinality(CommonBoundaries)
        /\ pc = "done" =>
             /\ IF Denominator = 0 THEN rate = <<1, 1>>
                ELSE /\ rate[2] # 0
                     /\ rate[1] * Denominator = Cardinality(CommonBoundaries) * rate[2]
             /\ (reference = DocReference /\ hypothesis = DocHypothesis4) =>
                   IF metric = "precision" THEN rate = <<2, 3>> ELSE rate = <<2, 2>>
             /\ (reference = DocReference /\ hypothesis = DocHypothesis1) =>
                   IF metric = "precision" THEN rate = <<1, 1>> ELSE rate = <<0, 2>>

C1_Witness ==
    /\ pc = "done"
    /\ metric = "precision"
    /\ tolerance = 0
    /\ reference = DocReference
    /\ hypothesis = DocHypothesis4
    /\ rate = <<2, 3>>

\* C2: no reference boundary (row) and no hypothesis boundary (column) is used in
\* more than one match, so the match count never exceeds min(N, M).
C2_NoBoundaryReused ==
    /\ nMatches = Len(matched)
    /\ \A a, b \in 1..Len(matched) :
          a # b => (matched[a][1] # matched[b][1] /\ matched[a][2] # matched[b][2])
    /\ nMatches <= Min(InteriorCount(InnerReference), InteriorCount(InnerHypothesis))
    /\ pc \in {"details", "done"} =>
          detail.matches <= Min(InteriorCount(InnerReference), InteriorCount(InnerHypothesis))

C2_Witness ==
    /\ pc = "details"
    /\ detail.matches = 2
    /\ N = 3
    /\ M = 2

\* C3: every pair counted as a match is at most `tolerance` apart, even when a
\* farther pair is the closest one still available.
C3_MatchesWithinTolerance ==
    \A a \in 1..Len(matched) :
        Abs(refBoundaries[matched[a][1] + 1] - hypBoundaries[matched[a][2] + 1]) <= tolerance

\* a run that stopped although an unused reference boundary and an unused
\* hypothesis boundary were left: their distance exceeds the tolerance
C3_Witness ==
    /\ pc = "details"
    /\ nMatches = 1
    /\ N = 2
    /\ M = 2
    /\ tolerance = 1
    /\ \E i \in Rows(N), j \in Rows(M) :
          /\ \A a \in 1..Len(matched) : matched[a][1] # i /\ matched[a][2] # j
          /\ Abs(refBoundaries[i + 1] - hypBoundaries[j + 1]) = 2

\* C6: when either structure has fewer than 2 intervals, _get_details raises no
\* error and returns match count 0 and a non-negative boundary count, the
\* hypothesis's number of interior boundaries; _get_rate then returns 1.0 when
\* the boundary count is 0.
C6_DegenerateIsTotal ==
    (Cardinality(reference) < 2 \/ Cardinality(hypothesis) < 2) =>
        /\ pc # "error"
        /\ pc \in {"details", "done"} =>
              /\ detail.matches = 0
              /\ detail.boundaries = InteriorCount(InnerHypothesis)
              /\ detail.boundaries >= 0
        /\ (pc = "done" /\ detail.boundaries = 0) => rate = <<1, 1>>

\* C7: for fixed boundary lists the match count is monotone in the tolerance, and
\* so is the rate (match count over the fixed boundary count M).
C7_MonotoneInTolerance ==
    (pc = "details" /\ N > 0 /\ M > 0) =>
        /\ detail.matches = MatchCount(refBoundaries, hypBoundaries, tolerance)
        /\ \A t1 \in Tolerances, t2 \in {tolerance} :
              t1 <= t2 =>
                 LET c1 == MatchCount(refBoundaries, hypBoundaries, t1)
                     c2 == detail.matches
                     r1 == PRRate([matches |-> c1, boundaries |-> M])
                     r2 == PRRate([matches |-> c2, boundaries |-> M])
                 IN  /\ c1 <= c2
                     /\ r1[1] * r2[2] <= r2[1] * r1[2]

C7_Witness ==
    /\ pc = "details"
    /\ N > 0
    /\ M > 0
    /\ tolerance = 1
    /\ detail.matches = 2
    /\ MatchCount(refBoundaries, hypBoundaries, 0) = 1

\* C10: every extraction step strictly decreases the number of finite cells, the
\* loop can always take its next step, continues exactly while a finite cell is
\* left, and runs at most min(N, M) times: it stops with no finite cell left.
C10_LoopTerminates ==
    /\ [][(pc = "loop" /\ pc' = "loop") =>
             Cardinality(FiniteCells(delta')) < Cardinality(FiniteCells(delta))]_vars
    /\ [](pc = "loop" =>
             /\ nMatches <= Min(N, M)
             /\ (h < Inf) = (FiniteCells(delta) # {})
             /\ ENABLED (MatchStep \/ LoopExit))
    /\ []((pc = "details" /\ N > 0 /\ M > 0) => FiniteCells(delta) = {})

C10_Witness ==
    /\ pc = "details"
    /\ nMatches = 3
    /\ N = 3
    /\ M = 3

\* ------------------------------------------------ coverage / purity pipeline
CPInputs ==
    (Annotations \X Annotations \X GapTolerances)
        \cup {<<DocGapReference, DocGapReference, DocGapTolerance>>}

InitCP ==
    /\ metric \in {"coverage", "purity"}
    /\ \E in \in CPInputs :
          /\ reference = in[1]
          /\ hypothesis = in[2]
          /\ tolerance = in[3]
    /\ pc = "call"
    /\ error = "none"
    /\ N = 0
    /\ M = 0
    /\ refBoundaries = <<>>
    /\ hypBoundaries = <<>>
    /\ delta = <<>>
    /\ h = Inf
    /\ nMatches = 0
    /\ matched = <<>>
    /\ filled = {}
    /\ coverage = {}
    /\ refPartition = {}
    /\ hypPartition = {}
    /\ detail = [total |-> 0, inter |-> 0]
    /\ rate = <<>>

\* the locals _preprocess leaves behind
SetPartitions(p) ==
    /\ filled' = p.filled
    /\ coverage' = p.coverage
    /\ refPartition' = p.reference
    /\ hypPartition' = p.hypothesis

\* SegmentationCoverage._get_details: _preprocess, then _process(reference, hypothesis)
CoverageGetDetails ==
    /\ pc = "call"
    /\ metric = "coverage"
    /\ LET p == Preprocess(reference, hypothesis, tolerance)
       IN  /\ SetPartitions(p)
           /\ detail' = CoverageProcess(p)
    /\ pc' = "details"
    /\ UNCHANGED <<metric, tolerance, reference, hypothesis, error, rate, matcherVars>>

\* SegmentationPurity._get_details: _preprocess, then _process(hypothesis, reference)
PurityGetDetails ==
    /\ pc = "call"
    /\ metric = "purity"
    /\ LET p == Preprocess(reference, hypothesis, tolerance)
       IN  /\ SetPartitions(p)
           /\ detail' = PurityProcess(p)
    /\ pc' = "details"
    /\ UNCHANGED <<metric, tolerance, reference, hypothesis, error, rate, matcherVars>>

\* _process on a matrix without rows or without columns: depending on the array
\* library np.max(K, axis=1) raises ValueError instead of returning no maxima
EmptyMatrixRaises ==
    /\ pc = "call"
    /\ LET p == Preprocess(reference, hypothesis, tolerance)
       IN  /\ (p.reference = {} \/ p.hypothesis = {})
           /\ SetPartitions(p)
    /\ pc' = "error"
    /\ error' = "ValueError"
    /\ UNCHANGED <<metric, tolerance, reference, hypothesis, detail, rate, matcherVars>>

\* SegmentationCoverage._get_rate; a rate is the fraction <<numerator, denominator>>
CPRate(d) == <<d.inter, d.total>>

GetRateCP ==
    /\ pc = "details"
    /\ detail.total # 0
    /\ rate' = CPRate(detail)
    /\ pc' = "done"
    /\ UNCHANGED <<metric, tolerance, reference, hypothesis, error, detail,
                   matcherVars, partitionVars>>

\* _get_rate with total duration 0: float division by zero
GetRateZeroDivision ==
    /\ pc = "details"
    /\ detail.total = 0
    /\ pc' = "error"
    /\ error' = "ZeroDivisionError"
    /\ UNCHANGED <<metric, tolerance, reference, hypothesis, detail, rate,
                   matcherVars, partitionVars>>

NextCP == CoverageGetDetails \/ PurityGetDetails \/ EmptyMatrixRaises \/ GetRateCP
             \/ GetRateZeroDivision

SpecCP == InitCP /\ [][NextCP]_vars

\* ------------------------------------------------- coverage / purity claims
\* gap filling and merging leave the structure as it is
Unfilled(A) == Filled(A, tolerance) = GetTimeline(A)

\* C4 as stated: Coverage(R, H) yields the same detail record as Purity(H, R).
C4_DualityAsStated ==
    (pc = "details" /\ metric = "coverage") =>
        detail = PurityDetails(hypothesis, reference, tolerance)

\* C4 amended: Coverage(R, H) equals Purity(H, R) when gap filling leaves both
\* structures unchanged and both cover the same region.
C4_DualityWhenSymmetric ==
    (/\ pc = "details"
     /\ metric = "coverage"
     /\ Unfilled(reference)
     /\ Unfilled(hypothesis)
     /\ CoverageOf(GetTimeline(reference)) = CoverageOf(GetTimeline(hypothesis))) =>
        detail = PurityDetails(hypothesis, reference, tolerance)

C4_Witness ==
    /\ pc = "details"
    /\ metric = "coverage"
    /\ Unfilled(reference)
    /\ Unfilled(hypothesis)
    /\ CoverageOf(GetTimeline(reference)) = CoverageOf(GetTimeline(hypothesis))
    /\ Cardinality(reference) = 2
    /\ Cardinality(hypothesis) = 3
    /\ detail.inter < detail.total
    /\ detail = PurityDetails(hypothesis, reference, tolerance)

\* C5 as stated: a non-empty structure scored against itself has coverage and
\* purity 1.0.
C5_IdenticalAsStated ==
    (reference = hypothesis /\ reference # {} /\ pc = "done") => rate[1] = rate[2]

\* C5 amended: a non-empty structure scored against itself has purity 1.0; its
\* coverage is 1.0 exactly when gap filling and merging remove none of its
\* boundary timestamps, and is below 1.0 otherwise.
C5_IdenticalPurityOne ==
    (reference = hypothesis /\ reference # {}) =>
        /\ pc # "error"
        /\ pc = "done" =>
              /\ rate[2] > 0
              /\ rate[1] <= rate[2]
              /\ metric = "purity" => rate[1] = rate[2]
              /\ metric = "coverage" =>
                    ((rate[1] = rate[2])
                        = (BoundarySet(filled) = BoundarySet(GetTimeline(reference))))

C5_Witness ==
    /\ pc = "done"
    /\ metric = "coverage"
    /\ reference = hypothesis
    /\ Cardinality(reference) = 3
    /\ tolerance = 1
    /\ rate[1] = rate[2]

\* the segments of label l joined into one: consecutive ones touch or are less
\* than the tolerance apart
Joined(a, b) == b[1] - a[2] = 0 \/ b[1] - a[2] < tolerance

\* the envelopes of label l: maximal runs of joined consecutive segments
Envelopes(A, l) ==
    LET ss == SortedSegs(LabelTimeline(A, l))
        n == Len(ss)
    IN  {<<ss[x[1]][1], ss[x[2]][2]>> :
            x \in {y \in (1..n) \X (1..n) :
                      /\ y[1] <= y[2]
                      /\ \A k \in y[1]..(y[2] - 1) : Joined(ss[k], ss[k + 1])
                      /\ (y[1] = 1 \/ ~Joined(ss[y[1] - 1], ss[y[1]]))
                      /\ (y[2] = n \/ ~Joined(ss[y[2]], ss[y[2] + 1]))}}

\* C8: a gap between consecutive same-label intervals is closed iff it is strictly
\* shorter than the tolerance, and `filled` holds the per-label merged envelopes;
\* [0,1] and [1.2,2] with tolerance 0.5 become [0,2].
C8_ShortGapsFilled ==
    pc # "call" =>
        /\ filled = UNION {Envelopes(reference, l) : l \in LabelsOf(reference)}
        /\ (reference = DocGapReference /\ tolerance = DocGapTolerance) =>
              filled = {<<0, 20>>}

C8_Witness ==
    /\ pc = "done"
    /\ reference = DocGapReference
    /\ tolerance = DocGapTolerance
    /\ filled = {<<0, 20>>}

\* C9: both partitions are non-overlapping and gapless over the coverage of the
\* gap-filled reference, so the total duration is the duration of that region
\* (stated for the calls whose two partitions are not empty).
C9_PartitionsSpanCoverage ==
    (pc \in {"details", "done"} /\ refPartition # {} /\ hypPartition # {}) =>
        /\ NonOverlapping(refPartition)
        /\ NonOverlapping(hypPartition)
        /\ CellsOf(refPartition) = CellsOf(coverage)
        /\ CellsOf(hypPartition) = CellsOf(coverage)
        /\ detail.total = Cardinality(CellsOf(coverage))

====
